---- MODULE Spec2Model ----
(***************************************************************************)
(* OnlineClinic real-time chat: the Hub event loop (controllers/chats.go), *)
(* the per-connection read and write pumps, the message router inside      *)
(* readPump, and the chat/message store it calls (models/chat.go and the   *)
(* stored procedures of config/schema.sql).                                *)
(*                                                                         *)
(* Goroutines are processes with a program counter each:                   *)
(*   hubPc      Hub.Run          "select" | "bcast"                        *)
(*   spc[c]     ServeWs          "idle" .. "done"                          *)
(*   rpc[c]     Client.readPump  "off" .. "done"                           *)
(*   wpc[c]     Client.writePump "off" .. "done"                           *)
(*   mainPc     main             "serving" | "range" | "done"              *)
(* hub.register, hub.unregister and hub.broadcast are unbuffered channels: *)
(* a send is a rendezvous, modelled as one action taken when the sender    *)
(* is parked at the send and the hub is at its select.                     *)
(***************************************************************************)
EXTENDS Naturals, Sequences, FiniteSets

\* ------------------------------------------------------------- bounds

\* Capacity of Client.send. The program makes it 256 (chats.go:107); the
\* model scales it down so that a full channel is reachable.
SendCap == 1

\* Frames the peers send over all sockets in one run.
MaxFrames == 2

\* CreateChat HTTP requests served in one run.
MaxCalls == 1

\* The connections (Client objects) of a run and the users behind them.
ClientSet == {"c1", "c2"}

Users == {1, 2}

\* claims.UserID of the verified token of the connection (chats.go:108).
ClientID(c) == IF c = "c1" THEN 1 ELSE 2

\* receiver_id values the peer of c puts in its frames.
Receivers(c) == Users \ {ClientID(c)}

\* ------------------------------------------------------------- state

VARIABLES
    Clients,      \* Hub.Clients: the set of registered clients
    hubPc,        \* where Hub.Run is
    hubMsg,       \* the payload of the broadcast being fanned out
    hubTodo,      \* clients the range loop has still to visit
    chan,         \* state of c.send: "nil" | "open" | "closed"
    send,         \* buffered contents of c.send
    spc,          \* ServeWs position
    rpc,          \* readPump position
    wpc,          \* writePump position
    cur,          \* readPump: the frame being handled
    chatID,       \* readPump: existingChatID / msg.ChatID
    wmsg,         \* writePump: the payload received and not yet written
    conn,         \* c.Conn: "none" | "open" | "closed"
    nRead,        \* frames read so far from c's socket
    chats,        \* table chats: sequence of rows, id = position
    messages,     \* table messages: sequence of rows
    panicked,     \* a Go runtime panic or fatal error happened (close of
                  \* closed channel, send on closed channel, concurrent map
                  \* iteration and map write): the process is gone
    closeCount,   \* history: number of close(c.send) executed
    dropped,      \* history: clients removed by a broadcast (full channel)
    enq,          \* history: payloads the hub put on c.send, in order
    badSender,    \* history: frames of c dropped by the sender check
    sock,         \* history: what was written to c's socket, in order
    mainPc,       \* where main is: before the signal, in its loop, returned
    mainSeen,     \* main: clients its range loop has produced
    mapRace,      \* Hub.Run wrote Hub.Clients while main was ranging over it
    wire,         \* history: the frames read from the sockets
    connCloses,   \* history: number of c.Conn.Close() calls executed
    pending,      \* fields of the frame waiting on c's socket, as its peer
                  \* wrote them
    history,      \* the last answer of models.GetChatHistory
    req,          \* the CreateChat HTTP request being served, and the last
                  \* response
    quota         \* frames the peers send over all sockets in this run

hubVars  == <<Clients, hubPc, hubMsg, hubTodo>>
chanVars == <<chan, send, closeCount, dropped, enq>>
pumpVars == <<rpc, wpc, cur, chatID, wmsg, conn, nRead, sock, badSender>>
dbVars   == <<chats, messages>>
mainVars == <<mainPc, mainSeen>>
envVars  == <<pending, history, req, quota>>
vars     == <<Clients, hubPc, hubMsg, hubTodo, chan, send, spc, rpc, wpc, cur,
              chatID, wmsg, conn, nRead, chats, messages, panicked,
              closeCount, dropped, enq, badSender, sock, mainPc, mainSeen,
              mapRace, wire, connCloses, pending, history, req, quota>>

\* A Go pointer or a nullable SQL value: <<>> is nil / NULL, <<v>> holds v.
Nil == <<>>

Ptr(v) == <<v>>

\* The fields of a WSMessage besides sender and receiver that the store
\* path looks at, as a peer writes them. The plain envelope: chat_id 0 (the
\* peer does not know the thread), no reply, is_read false.
PlainBody == [chat_id |-> 0, message |-> "hi", replied_message |-> Nil,
              replied_message_id |-> Nil, is_read |-> FALSE]

\* A frame as read from a socket: the raw bytes stand for themselves, so two
\* frames are the same bytes only if they are the same read (origin, seq).
\* chat_id is what the peer put in the frame.
NoFrame == [origin |-> "none", seq |-> 0, sender_id |-> 0, receiver_id |-> 0,
            chat_id |-> 0, body |-> PlainBody]

Frame(c, n, s, r) == [origin |-> c, seq |-> n, sender_id |-> s, receiver_id |-> r,
                      chat_id |-> pending[c].chat_id, body |-> pending[c]]

\* Bytes that json.Unmarshal rejects.
Malformed(c, n) == [origin |-> c, seq |-> n, sender_id |-> 0, receiver_id |-> 0,
                    chat_id |-> 0, body |-> PlainBody]

\* The process runs: no panic or fatal error, and main has not returned.
Alive == ~panicked /\ mainPc # "done"

TotalRead == nRead["c1"] + nRead["c2"]

\* No answer of GetChatHistory yet.
NoHistory == [err |-> FALSE, chats |-> <<>>]

\* No CreateChat request in progress and none answered. found is the
\* procedure's existing_chat_id, status the HTTP status of the last answer.
NoRequest == [pc |-> "idle", a |-> 0, b |-> 0, found |-> 0, id |-> 0,
              status |-> 0, calls |-> 0]

\* The state NewHub leaves, before any connection, in a run whose peers
\* send q frames.
Start(q) ==
    /\ quota = q
    /\ Clients = {}
    /\ hubPc = "select"
    /\ hubMsg = NoFrame
    /\ hubTodo = {}
    /\ chan = [c \in ClientSet |-> "nil"]
    /\ send = [c \in ClientSet |-> <<>>]
    /\ spc = [c \in ClientSet |-> "idle"]
    /\ rpc = [c \in ClientSet |-> "off"]
    /\ wpc = [c \in ClientSet |-> "off"]
    /\ cur = [c \in ClientSet |-> NoFrame]
    /\ chatID = [c \in ClientSet |-> 0]
    /\ wmsg = [c \in ClientSet |-> NoFrame]
    /\ conn = [c \in ClientSet |-> "none"]
    /\ nRead = [c \in ClientSet |-> 0]
    /\ chats = <<>>
    /\ messages = <<>>
    /\ panicked = FALSE
    /\ closeCount = [c \in ClientSet |-> 0]
    /\ dropped = {}
    /\ enq = [c \in ClientSet |-> <<>>]
    /\ badSender = [c \in ClientSet |-> 0]
    /\ sock = [c \in ClientSet |-> <<>>]
    /\ mainPc = "serving"
    /\ mainSeen = {}
    /\ mapRace = FALSE
    /\ wire = {}
    /\ connCloses = [c \in ClientSet |-> 0]
    /\ pending = [c \in ClientSet |-> PlainBody]
    /\ history = NoHistory
    /\ req = NoRequest

Init == Start(MaxFrames)

\* ------------------------------------------------------------- ServeWs

\* Mutant of ServeWs: the connection is upgraded before the token is
\* looked at.
ServeWsUpgradeFirst(c) ==
    /\ Alive
    /\ UNCHANGED <<envVars, mainVars, mapRace, wire, connCloses>>
    /\ spc[c] = "idle"
    /\ \E token \in {"missing", "invalid", "valid"}, upgraded \in BOOLEAN :
         IF ~upgraded
         THEN /\ spc' = [spc EXCEPT ![c] = "failed"]
              /\ UNCHANGED <<chan, conn>>
         ELSE IF token = "missing" \/ token = "invalid"
         THEN /\ spc' = [spc EXCEPT ![c] = "unauthorized"]
              /\ conn' = [conn EXCEPT ![c] = "open"]
              /\ UNCHANGED chan
         ELSE /\ spc' = [spc EXCEPT ![c] = "register"]
              /\ chan' = [chan EXCEPT ![c] = "open"]
              /\ conn' = [conn EXCEPT ![c] = "open"]
    /\ UNCHANGED <<hubVars, send, closeCount, dropped, enq, rpc, wpc, cur,
                   chatID, wmsg, nRead, sock, dbVars, panicked, badSender>>

\* Mutant of ServeWs: the pumps are started before the send on
\* hub.register.
ServeWsPumpsFirst(c) ==
    /\ Alive
    /\ UNCHANGED <<envVars, mainVars, mapRace, wire, connCloses>>
    /\ spc[c] = "idle"
    /\ \E token \in {"missing", "invalid", "valid"}, upgraded \in BOOLEAN :
         IF token = "missing" \/ token = "invalid"
         THEN /\ spc' = [spc EXCEPT ![c] = "unauthorized"]
              /\ UNCHANGED <<chan, conn, rpc, wpc>>
         ELSE IF ~upgraded
         THEN /\ spc' = [spc EXCEPT ![c] = "failed"]
              /\ UNCHANGED <<chan, conn, rpc, wpc>>
         ELSE /\ spc' = [spc EXCEPT ![c] = "register"]
              /\ chan' = [chan EXCEPT ![c] = "open"]
              /\ conn' = [conn EXCEPT ![c] = "open"]
              /\ wpc' = [wpc EXCEPT ![c] = "recv"]
              /\ rpc' = [rpc EXCEPT ![c] = "read"]
    /\ UNCHANGED <<hubVars, send, closeCount, dropped, enq, cur,
                   chatID, wmsg, nRead, sock, dbVars, panicked, badSender>>

\* ServeWs up to the send on hub.register: token check, upgrade, &Client{}.
\* "unauthorized" is the return after http.Error(w, ..., 401).
ServeWs(c) ==
    /\ Alive
    /\ UNCHANGED <<envVars, mainVars, mapRace, wire, connCloses>>
    /\ spc[c] = "idle"
    /\ \E token \in {"missing", "invalid", "valid"}, upgraded \in BOOLEAN :
         IF token = "missing" \/ token = "invalid"
         THEN /\ spc' = [spc EXCEPT ![c] = "unauthorized"]
              /\ UNCHANGED <<chan, conn>>
         ELSE IF ~upgraded
         THEN /\ spc' = [spc EXCEPT ![c] = "failed"]
              /\ UNCHANGED <<chan, conn>>
         ELSE /\ spc' = [spc EXCEPT ![c] = "register"]
              /\ chan' = [chan EXCEPT ![c] = "open"]
              /\ conn' = [conn EXCEPT ![c] = "open"]
    /\ UNCHANGED <<hubVars, send, closeCount, dropped, enq, rpc, wpc, cur,
                   chatID, wmsg, nRead, sock, dbVars, panicked, badSender>>

\* go client.writePump(); go client.readPump()
StartPumps(c) ==
    /\ Alive
    /\ UNCHANGED <<envVars, mainVars, mapRace, wire, connCloses>>
    /\ spc[c] = "spawn"
    /\ spc' = [spc EXCEPT ![c] = "done"]
    /\ wpc' = [wpc EXCEPT ![c] = "recv"]
    /\ rpc' = [rpc EXCEPT ![c] = "read"]
    /\ UNCHANGED <<hubVars, chanVars, cur, chatID, wmsg, conn, nRead, sock,
                   dbVars, panicked, badSender>>

\* ------------------------------------------------------------- Hub.Run

\* A write of Hub.Clients by Hub.Run. The map is a plain Go map and Hub.mu
\* is never locked: a write while main ranges over the map is a data race.
MapWritten ==
    mapRace' = (mapRace \/ (mainPc = "range" /\ Clients' # Clients))

\* Mutant of Registered: the assignment is lost.
RegisteredNot(cl, c) == cl

\* h.Clients[client] = true: the key is in the map afterwards, once.
Registered(cl, c) == cl \cup {c}

\* Mutant of HubRegister: a register request is also taken between two
\* iterations of the broadcast loop, and the new client joins the loop.
HubRegisterJoins(c) ==
    /\ Alive
    /\ UNCHANGED <<envVars, mainVars, wire, connCloses>>
    /\ spc[c] = "register"
    /\ Clients' = Registered(Clients, c)
    /\ hubTodo' = IF hubPc = "bcast" THEN hubTodo \cup {c} ELSE hubTodo
    /\ MapWritten
    /\ spc' = [spc EXCEPT ![c] = "spawn"]
    /\ UNCHANGED <<hubPc, hubMsg, chanVars, pumpVars, dbVars, panicked>>

\* case client := <-h.register
HubRegister(c) ==
    /\ Alive
    /\ UNCHANGED <<envVars, mainVars, wire, connCloses>>
    /\ hubPc = "select"
    /\ spc[c] = "register"
    /\ Clients' = Registered(Clients, c)
    /\ MapWritten
    /\ spc' = [spc EXCEPT ![c] = "spawn"]
    /\ UNCHANGED <<hubPc, hubMsg, hubTodo, chanVars, pumpVars, dbVars, panicked>>

\* Mutant of UnregisterCase: no membership test before delete and close.
UnregisterAlways(cl, ch, c) ==
    [Clients |-> cl \ {c},
     chan |-> [ch EXCEPT ![c] = "closed"],
     closed |-> TRUE,
     panic |-> ch[c] # "open"]

\* Mutant of UnregisterCase: the client is deleted, its channel left open.
UnregisterNoClose(cl, ch, c) ==
    [Clients |-> cl \ {c}, chan |-> ch, closed |-> FALSE, panic |-> FALSE]

\* Mutant of UnregisterCase: the registry is emptied and every channel
\* closed.
UnregisterEveryone(cl, ch, c) ==
    IF c \in cl
    THEN [Clients |-> {},
          chan |-> [d \in DOMAIN ch |-> IF d \in cl THEN "closed" ELSE ch[d]],
          closed |-> TRUE,
          panic |-> ch[c] # "open"]
    ELSE [Clients |-> cl, chan |-> ch, closed |-> FALSE, panic |-> FALSE]

\* The unregister case on registry cl and channel states ch for client c:
\* what it leaves, and whether close(client.send) panicked.
UnregisterCase(cl, ch, c) ==
    IF c \in cl
    THEN [Clients |-> cl \ {c},
          chan |-> [ch EXCEPT ![c] = "closed"],
          closed |-> TRUE,
          panic |-> ch[c] # "open"]
    ELSE [Clients |-> cl, chan |-> ch, closed |-> FALSE, panic |-> FALSE]

\* case client := <-h.unregister
HubUnregister(c) ==
    /\ Alive
    /\ UNCHANGED <<envVars, mainVars, wire, connCloses>>
    /\ hubPc = "select"
    /\ rpc[c] = "unreg"
    /\ LET r == UnregisterCase(Clients, chan, c) IN
         /\ Clients' = r.Clients
         /\ chan' = r.chan
         /\ closeCount' = [closeCount EXCEPT ![c] = @ + (IF r.closed THEN 1 ELSE 0)]
         /\ panicked' = r.panic
    /\ MapWritten
    /\ rpc' = [rpc EXCEPT ![c] = "connClose"]
    /\ UNCHANGED <<hubPc, hubMsg, hubTodo, send, dropped, enq, spc, wpc, cur,
                   chatID, wmsg, conn, nRead, sock, dbVars, badSender>>

\* Mutant of HubBroadcast: the payload is the decoded message encoded again,
\* with the chat_id readPump stamped into it.
HubBroadcastReencoded(c) ==
    /\ Alive
    /\ UNCHANGED <<envVars, mainVars, mapRace, wire, connCloses>>
    /\ hubPc = "select"
    /\ rpc[c] = "bcast"
    /\ hubMsg' = [cur[c] EXCEPT !.chat_id = chatID[c]]
    /\ hubTodo' = Clients
    /\ hubPc' = IF Clients = {} THEN "select" ELSE "bcast"
    /\ rpc' = [rpc EXCEPT ![c] = "read"]
    /\ cur' = [cur EXCEPT ![c] = NoFrame]
    /\ chatID' = [chatID EXCEPT ![c] = 0]
    /\ UNCHANGED <<Clients, chanVars, spc, wpc, wmsg, conn, nRead, sock,
                   dbVars, panicked, badSender>>

\* case message := <-h.broadcast: the receive, and the start of the range
\* over h.Clients. The payload is `message`, the bytes ReadMessage returned.
HubBroadcast(c) ==
    /\ Alive
    /\ UNCHANGED <<envVars, mainVars, mapRace, wire, connCloses>>
    /\ hubPc = "select"
    /\ rpc[c] = "bcast"
    /\ hubMsg' = cur[c]
    /\ hubTodo' = Clients
    /\ hubPc' = IF Clients = {} THEN "select" ELSE "bcast"
    /\ rpc' = [rpc EXCEPT ![c] = "read"]
    /\ cur' = [cur EXCEPT ![c] = NoFrame]
    /\ chatID' = [chatID EXCEPT ![c] = 0]
    /\ UNCHANGED <<Clients, chanVars, spc, wpc, wmsg, conn, nRead, sock,
                   dbVars, panicked, badSender>>

\* Mutant of CanSend: the send is refused while one place is still free.
CanSendEarly(c) == Len(send[c]) + 1 < SendCap

\* Mutant of CanSend: the buffer takes one payload more than its capacity.
CanSendOffByOne(c) == Len(send[c]) <= SendCap

\* Whether the non-blocking send on c.send is taken; otherwise the default
\* branch runs.
CanSend(c) == Len(send[c]) < SendCap

\* Mutant of Deleted: the default branch closes the channel and leaves the
\* client in the map.
DeletedNot(cl, c) == cl

\* delete(h.Clients, client) of the default branch.
Deleted(cl, c) == cl \ {c}

\* Mutant of HubOffer: a plain `client.send <- message`, which waits for
\* room in the channel.
HubOfferBlocking(c) ==
    /\ Alive
    /\ UNCHANGED <<envVars, mainVars, wire, connCloses>>
    /\ hubPc = "bcast"
    /\ c \in hubTodo
    /\ chan[c] = "open"
    /\ CanSend(c)
    /\ send' = [send EXCEPT ![c] = Append(@, hubMsg)]
    /\ enq' = [enq EXCEPT ![c] = Append(@, hubMsg)]
    /\ MapWritten
    /\ hubTodo' = hubTodo \ {c}
    /\ hubPc' = IF hubTodo \ {c} = {} THEN "select" ELSE "bcast"
    /\ hubMsg' = IF hubTodo \ {c} = {} THEN NoFrame ELSE hubMsg
    /\ UNCHANGED <<Clients, chan, closeCount, dropped, panicked, spc, pumpVars,
                   dbVars>>

\* Mutant of HubOffer: the default branch deletes the client and does not
\* close its channel.
HubOfferNoClose(c) ==
    /\ Alive
    /\ UNCHANGED <<envVars, mainVars, wire, connCloses>>
    /\ hubPc = "bcast"
    /\ c \in hubTodo
    /\ IF chan[c] # "open"
       THEN /\ panicked' = TRUE
            /\ UNCHANGED <<Clients, chanVars>>
       ELSE IF CanSend(c)
       THEN /\ send' = [send EXCEPT ![c] = Append(@, hubMsg)]
            /\ enq' = [enq EXCEPT ![c] = Append(@, hubMsg)]
            /\ UNCHANGED <<Clients, chan, closeCount, dropped, panicked>>
       ELSE /\ Clients' = Deleted(Clients, c)
            /\ dropped' = dropped \cup {c}
            /\ UNCHANGED <<chan, closeCount, send, enq, panicked>>
    /\ MapWritten
    /\ hubTodo' = hubTodo \ {c}
    /\ hubPc' = IF hubTodo \ {c} = {} THEN "select" ELSE "bcast"
    /\ hubMsg' = IF hubTodo \ {c} = {} THEN NoFrame ELSE hubMsg
    /\ UNCHANGED <<spc, pumpVars, dbVars>>

\* Mutant of HubOffer: the payload goes to the front of the queue.
HubOfferFront(c) ==
    /\ Alive
    /\ UNCHANGED <<envVars, mainVars, wire, connCloses>>
    /\ hubPc = "bcast"
    /\ c \in hubTodo
    /\ IF chan[c] # "open"
       THEN /\ panicked' = TRUE
            /\ UNCHANGED <<Clients, chanVars>>
       ELSE IF CanSend(c)
       THEN /\ send' = [send EXCEPT ![c] = <<hubMsg>> \o @]
            /\ enq' = [enq EXCEPT ![c] = <<hubMsg>> \o @]
            /\ UNCHANGED <<Clients, chan, closeCount, dropped, panicked>>
       ELSE /\ chan' = [chan EXCEPT ![c] = "closed"]
            /\ closeCount' = [closeCount EXCEPT ![c] = @ + 1]
            /\ Clients' = Deleted(Clients, c)
            /\ dropped' = dropped \cup {c}
            /\ UNCHANGED <<send, enq, panicked>>
    /\ MapWritten
    /\ hubTodo' = hubTodo \ {c}
    /\ hubPc' = IF hubTodo \ {c} = {} THEN "select" ELSE "bcast"
    /\ hubMsg' = IF hubTodo \ {c} = {} THEN NoFrame ELSE hubMsg
    /\ UNCHANGED <<spc, pumpVars, dbVars>>

\* One iteration of `for client := range h.Clients`: the select with default.
\* Go ranges over a map in an unspecified order.
HubOffer(c) ==
    /\ Alive
    /\ UNCHANGED <<envVars, mainVars, wire, connCloses>>
    /\ hubPc = "bcast"
    /\ c \in hubTodo
    /\ IF chan[c] # "open"
       THEN \* send on a closed channel
            /\ panicked' = TRUE
            /\ UNCHANGED <<Clients, chanVars>>
       ELSE IF CanSend(c)
       THEN /\ send' = [send EXCEPT ![c] = Append(@, hubMsg)]
            /\ enq' = [enq EXCEPT ![c] = Append(@, hubMsg)]
            /\ UNCHANGED <<Clients, chan, closeCount, dropped, panicked>>
       ELSE /\ chan' = [chan EXCEPT ![c] = "closed"]
            /\ closeCount' = [closeCount EXCEPT ![c] = @ + 1]
            /\ Clients' = Deleted(Clients, c)
            /\ dropped' = dropped \cup {c}
            /\ UNCHANGED <<send, enq, panicked>>
    /\ MapWritten
    /\ hubTodo' = hubTodo \ {c}
    /\ hubPc' = IF hubTodo \ {c} = {} THEN "select" ELSE "bcast"
    /\ hubMsg' = IF hubTodo \ {c} = {} THEN NoFrame ELSE hubMsg
    /\ UNCHANGED <<spc, pumpVars, dbVars>>

\* ------------------------------------------------------------- store

\* Mutant of MatchingChats: only the order the row was written in matches.
MatchingChatsOrdered(a, b) ==
    {i \in 1..Len(chats) : chats[i].sender_id = a /\ chats[i].receiver_id = b}

\* Rows of chats whose participants are a and b, in either order: the WHERE
\* clause of models.ChatExists and of PROCEDURE CreateChat.
MatchingChats(a, b) ==
    {i \in 1..Len(chats) :
        \/ chats[i].sender_id = a /\ chats[i].receiver_id = b
        \/ chats[i].sender_id = b /\ chats[i].receiver_id = a}

\* What a single-row read of that SELECT may return: 0 for no row, else the
\* id of a matching row (SQL fixes no order without ORDER BY).
ChatExistsResults(a, b) ==
    IF MatchingChats(a, b) = {} THEN {0} ELSE MatchingChats(a, b)

\* What db.QueryRow("SELECT @chat_id") may read. @chat_id is a variable of
\* the database session, and database/sql runs every statement on whichever
\* pooled session is free: the SELECT reads the value the last CALL
\* CreateChat on that session left, this goroutine's or an earlier one's.
\* Every such value is the id of a row of chats.
SessionChatIds == 1..Len(chats)

\* ------------------------------------------------------------- readPump

\* Mutant of Authentic: the declared sender is trusted.
AuthenticAny(c, s) == TRUE

\* msg.SenderID != c.ID is the rejection test; this is its negation.
Authentic(c, s) == s = ClientID(c)

\* `continue`: back to ReadMessage with nothing kept of the frame.
Continue(c) ==
    /\ rpc' = [rpc EXCEPT ![c] = "read"]
    /\ cur' = [cur EXCEPT ![c] = NoFrame]
    /\ chatID' = [chatID EXCEPT ![c] = 0]

\* Mutant of ReadError: the error is skipped with `continue` instead of
\* `break`.
ReadErrorContinue(c) ==
    /\ Alive
    /\ UNCHANGED <<envVars, mainVars, mapRace, wire, connCloses>>
    /\ rpc[c] = "read"
    /\ rpc' = [rpc EXCEPT ![c] = "read"]
    /\ UNCHANGED <<hubVars, chanVars, spc, wpc, cur, chatID, wmsg, conn, nRead,
                   sock, dbVars, panicked, badSender>>

\* c.Conn.ReadMessage() returns an error: the peer went away, or the socket
\* was closed by writePump's deferred Close.
ReadError(c) ==
    /\ Alive
    /\ UNCHANGED <<envVars, mainVars, mapRace, wire, connCloses>>
    /\ rpc[c] = "read"
    /\ rpc' = [rpc EXCEPT ![c] = "unreg"]
    /\ UNCHANGED <<hubVars, chanVars, spc, wpc, cur, chatID, wmsg, conn, nRead,
                   sock, dbVars, panicked, badSender>>

\* Mutant of ReadMessage: a frame that does not decode ends the loop, as a
\* read error does.
ReadMessageStrict(c, decodable, s, r) ==
    /\ Alive
    /\ UNCHANGED <<envVars, mainVars, mapRace, connCloses>>
    /\ rpc[c] = "read"
    /\ conn[c] = "open"
    /\ TotalRead < quota
    /\ nRead' = [nRead EXCEPT ![c] = @ + 1]
    /\ wire' = wire \cup {IF decodable THEN Frame(c, nRead[c] + 1, s, r)
                                     ELSE Malformed(c, nRead[c] + 1)}
    /\ IF ~decodable
       THEN /\ rpc' = [rpc EXCEPT ![c] = "unreg"]
            /\ UNCHANGED <<cur, chatID, badSender>>
       ELSE IF ~Authentic(c, s)
       THEN /\ Continue(c)
            /\ badSender' = [badSender EXCEPT ![c] = @ + 1]
       ELSE /\ cur' = [cur EXCEPT ![c] = Frame(c, nRead[c] + 1, s, r)]
            /\ rpc' = [rpc EXCEPT ![c] = "exists"]
            /\ UNCHANGED <<chatID, badSender>>
    /\ UNCHANGED <<hubVars, chanVars, spc, wpc, wmsg, conn, sock, dbVars, panicked>>

\* c.Conn.ReadMessage() returns a frame; json.Unmarshal; the sender check.
ReadMessage(c, decodable, s, r) ==
    /\ Alive
    /\ UNCHANGED <<envVars, mainVars, mapRace, connCloses>>
    /\ rpc[c] = "read"
    /\ conn[c] = "open"
    /\ TotalRead < quota
    /\ nRead' = [nRead EXCEPT ![c] = @ + 1]
    /\ wire' = wire \cup {IF decodable THEN Frame(c, nRead[c] + 1, s, r)
                                     ELSE Malformed(c, nRead[c] + 1)}
    /\ IF ~decodable
       THEN Continue(c) /\ UNCHANGED badSender
       ELSE IF ~Authentic(c, s)
       THEN /\ Continue(c)
            /\ badSender' = [badSender EXCEPT ![c] = @ + 1]
       ELSE /\ cur' = [cur EXCEPT ![c] = Frame(c, nRead[c] + 1, s, r)]
            /\ rpc' = [rpc EXCEPT ![c] = "exists"]
            /\ UNCHANGED <<chatID, badSender>>
    /\ UNCHANGED <<hubVars, chanVars, spc, wpc, wmsg, conn, sock, dbVars, panicked>>

\* models.ChatExists(config.DB, msg.SenderID, msg.ReceiverID) and the two
\* tests of its result.
ChatExistsStep(c) ==
    /\ Alive
    /\ UNCHANGED <<envVars, mainVars, mapRace, wire, connCloses>>
    /\ rpc[c] = "exists"
    /\ \E err \in BOOLEAN :
         IF err
         THEN Continue(c)
         ELSE \E id \in ChatExistsResults(cur[c].sender_id, cur[c].receiver_id) :
                /\ chatID' = [chatID EXCEPT ![c] = id]
                /\ rpc' = [rpc EXCEPT ![c] = IF id = 0 THEN "createSelect" ELSE "add"]
                /\ UNCHANGED cur
    /\ UNCHANGED <<hubVars, chanVars, spc, wpc, wmsg, conn, nRead, sock, dbVars,
                   panicked, badSender>>

\* models.CreateChat: CALL CreateChat; the procedure's
\* SELECT ... INTO existing_chat_id and the branch on it.
CreateChatSelect(c) ==
    /\ Alive
    /\ UNCHANGED <<envVars, mainVars, mapRace, wire, connCloses>>
    /\ rpc[c] = "createSelect"
    /\ \E err \in BOOLEAN :
         IF err
         THEN Continue(c)
         ELSE \E id \in ChatExistsResults(cur[c].sender_id, cur[c].receiver_id) :
                /\ rpc' = [rpc EXCEPT ![c] = IF id # 0 THEN "createFetch"
                                                       ELSE "createInsert"]
                /\ UNCHANGED <<cur, chatID>>
    /\ UNCHANGED <<hubVars, chanVars, spc, wpc, wmsg, conn, nRead, sock, dbVars,
                   panicked, badSender>>

\* The procedure's INSERT INTO chats and SET p_chat_id = LAST_INSERT_ID().
CreateChatInsert(c) ==
    /\ Alive
    /\ UNCHANGED <<envVars, mainVars, mapRace, wire, connCloses>>
    /\ rpc[c] = "createInsert"
    /\ \E err \in BOOLEAN :
         IF err
         THEN Continue(c) /\ UNCHANGED chats
         ELSE /\ chats' = Append(chats, [sender_id |-> cur[c].sender_id,
                                         receiver_id |-> cur[c].receiver_id])
              /\ rpc' = [rpc EXCEPT ![c] = "createFetch"]
              /\ UNCHANGED <<cur, chatID>>
    /\ UNCHANGED <<hubVars, chanVars, spc, wpc, wmsg, conn, nRead, sock, messages,
                   panicked, badSender>>

\* db.QueryRow("SELECT @chat_id").Scan(&chatID): a second statement; a NULL
\* variable (a session no CALL ran on) fails the Scan like a store error.
CreateChatFetch(c) ==
    /\ Alive
    /\ UNCHANGED <<envVars, mainVars, mapRace, wire, connCloses>>
    /\ rpc[c] = "createFetch"
    /\ \E err \in BOOLEAN :
         IF err
         THEN Continue(c)
         ELSE \E id \in SessionChatIds :
                /\ chatID' = [chatID EXCEPT ![c] = id]
                /\ rpc' = [rpc EXCEPT ![c] = "add"]
                /\ UNCHANGED cur
    /\ UNCHANGED <<hubVars, chanVars, spc, wpc, wmsg, conn, nRead, sock, dbVars,
                   panicked, badSender>>

\* readPump's repliedMessage: "" for a nil msg.RepliedMessage.
RepliedText(body) ==
    IF body.replied_message = Nil THEN "" ELSE body.replied_message[1]

\* SQL NULLIF(x, z) on a nullable value.
NullIf(x, z) == IF x = Ptr(z) THEN Nil ELSE x

\* The row PROCEDURE AddMessage inserts for frame f in thread chat; frame is
\* not a column, it names the bytes the row was made from.
MessageRow(chat, f) ==
    [chat_id |-> chat,
     sender_id |-> f.sender_id,
     receiver_id |-> f.receiver_id,
     frame |-> f,
     text |-> f.body.message,
     replied_message |-> NullIf(Ptr(RepliedText(f.body)), ""),
     replied_message_id |-> NullIf(f.body.replied_message_id, 0),
     is_read |-> f.body.is_read]

\* FOREIGN KEY (replied_message_id) REFERENCES messages(id)
ForeignKeyOK(row) ==
    \/ row.replied_message_id = Nil
    \/ row.replied_message_id[1] \in 1..Len(messages)

\* Mutant of AddMessage: no `continue` after the error reply, so a frame
\* that was not saved goes on to the broadcast.
AddMessageFallThrough(c) ==
    /\ Alive
    /\ UNCHANGED <<envVars, mainVars, mapRace, wire, connCloses>>
    /\ rpc[c] = "add"
    /\ \E ok \in BOOLEAN :
       \E existing \in ChatExistsResults(cur[c].sender_id, cur[c].receiver_id) :
         IF /\ ok /\ existing # 0 /\ ~(chatID[c] # 0 /\ chatID[c] # existing)
            /\ ForeignKeyOK(MessageRow(existing, cur[c]))
         THEN messages' = Append(messages, MessageRow(existing, cur[c]))
         ELSE UNCHANGED messages
    /\ rpc' = [rpc EXCEPT ![c] = "bcast"]
    /\ UNCHANGED <<hubVars, chanVars, spc, wpc, cur, chatID, wmsg, conn, nRead,
                   sock, chats, panicked, badSender>>

\* Mutant of AddMessage: the chat id the caller passed is not compared
\* with the one ChatExists returns.
AddMessageUnchecked(c) ==
    /\ Alive
    /\ UNCHANGED <<envVars, mainVars, mapRace, wire, connCloses>>
    /\ rpc[c] = "add"
    /\ \E ok \in BOOLEAN :
       \E existing \in ChatExistsResults(cur[c].sender_id, cur[c].receiver_id) :
         IF /\ ok /\ existing # 0
            /\ ForeignKeyOK(MessageRow(existing, cur[c]))
         THEN /\ messages' = Append(messages, MessageRow(existing, cur[c]))
              /\ rpc' = [rpc EXCEPT ![c] = "bcast"]
         ELSE /\ rpc' = [rpc EXCEPT ![c] = "errWrite"]
              /\ UNCHANGED messages
    /\ UNCHANGED <<hubVars, chanVars, spc, wpc, cur, chatID, wmsg, conn, nRead,
                   sock, chats, panicked, badSender>>

\* Mutant of AddMessage: the row goes under the chat id the caller passed,
\* with no ChatExists of its own.
AddMessageTrusting(c) ==
    /\ Alive
    /\ UNCHANGED <<envVars, mainVars, mapRace, wire, connCloses>>
    /\ rpc[c] = "add"
    /\ \E ok \in BOOLEAN :
         IF ok /\ ForeignKeyOK(MessageRow(chatID[c], cur[c]))
         THEN /\ messages' = Append(messages, MessageRow(chatID[c], cur[c]))
              /\ rpc' = [rpc EXCEPT ![c] = "bcast"]
         ELSE /\ rpc' = [rpc EXCEPT ![c] = "errWrite"]
              /\ UNCHANGED messages
    /\ UNCHANGED <<hubVars, chanVars, spc, wpc, cur, chatID, wmsg, conn, nRead,
                   sock, chats, panicked, badSender>>

\* models.AddMessage: the date conversion, ChatExists, the two tests of its
\* result, CALL AddMessage. ok is FALSE when the conversion or a statement
\* fails; the INSERT also fails on a reply reference to no row.
AddMessage(c) ==
    /\ Alive
    /\ UNCHANGED <<envVars, mainVars, mapRace, wire, connCloses>>
    /\ rpc[c] = "add"
    /\ \E ok \in BOOLEAN :
       \E existing \in ChatExistsResults(cur[c].sender_id, cur[c].receiver_id) :
         IF /\ ok /\ existing # 0 /\ ~(chatID[c] # 0 /\ chatID[c] # existing)
            /\ ForeignKeyOK(MessageRow(existing, cur[c]))
         THEN /\ messages' = Append(messages, MessageRow(existing, cur[c]))
              /\ rpc' = [rpc EXCEPT ![c] = "bcast"]
         ELSE /\ rpc' = [rpc EXCEPT ![c] = "errWrite"]
              /\ UNCHANGED messages
    /\ UNCHANGED <<hubVars, chanVars, spc, wpc, cur, chatID, wmsg, conn, nRead,
                   sock, chats, panicked, badSender>>

\* c.Conn.WriteJSON(map[string]string{"error": ...}); continue. The result
\* of the write is ignored.
WriteError(c) ==
    /\ Alive
    /\ UNCHANGED <<envVars, mainVars, mapRace, wire, connCloses>>
    /\ rpc[c] = "errWrite"
    /\ \E ok \in BOOLEAN :
         sock' = IF ok /\ conn[c] = "open"
                 THEN [sock EXCEPT ![c] = Append(@, [kind |-> "error", frame |-> cur[c]])]
                 ELSE sock
    /\ Continue(c)
    /\ UNCHANGED <<hubVars, chanVars, spc, wpc, wmsg, conn, nRead, dbVars, panicked, badSender>>

\* Mutant of ReadPumpClose: readPump's cleanup closes c.send as well.
ReadPumpCloseSend(c) ==
    /\ Alive
    /\ UNCHANGED <<envVars, mainVars, mapRace, wire>>
    /\ rpc[c] = "connClose"
    /\ conn' = [conn EXCEPT ![c] = "closed"]
    /\ connCloses' = [connCloses EXCEPT ![c] = @ + 1]
    /\ chan' = [chan EXCEPT ![c] = "closed"]
    /\ closeCount' = [closeCount EXCEPT ![c] = @ + 1]
    /\ rpc' = [rpc EXCEPT ![c] = "done"]
    /\ UNCHANGED <<hubVars, send, dropped, enq, spc, wpc, cur, chatID, wmsg,
                   nRead, sock, dbVars, panicked, badSender>>

\* The deferred c.Conn.Close() of readPump, after the unregister was taken.
ReadPumpClose(c) ==
    /\ Alive
    /\ UNCHANGED <<envVars, mainVars, mapRace, wire>>
    /\ rpc[c] = "connClose"
    /\ conn' = [conn EXCEPT ![c] = "closed"]
    /\ connCloses' = [connCloses EXCEPT ![c] = @ + 1]
    /\ rpc' = [rpc EXCEPT ![c] = "done"]
    /\ UNCHANGED <<hubVars, chanVars, spc, wpc, cur, chatID, wmsg, nRead, sock,
                   dbVars, panicked, badSender>>

\* ------------------------------------------------------------- writePump

\* Mutant of WriteRecv: the payload is read and left in the channel.
WriteRecvPeek(c) ==
    /\ Alive
    /\ UNCHANGED <<envVars, mainVars, mapRace, wire, connCloses>>
    /\ wpc[c] = "recv"
    /\ IF Len(send[c]) > 0
       THEN /\ wmsg' = [wmsg EXCEPT ![c] = Head(send[c])]
            /\ wpc' = [wpc EXCEPT ![c] = "write"]
       ELSE /\ chan[c] = "closed"
            /\ wpc' = [wpc EXCEPT ![c] = "closeFrame"]
            /\ UNCHANGED wmsg
    /\ UNCHANGED <<hubVars, chanVars, spc, rpc, cur, chatID, conn, nRead, sock,
                   dbVars, panicked, badSender>>

\* case message, ok := <-c.send
WriteRecv(c) ==
    /\ Alive
    /\ UNCHANGED <<envVars, mainVars, mapRace, wire, connCloses>>
    /\ wpc[c] = "recv"
    /\ IF Len(send[c]) > 0
       THEN /\ wmsg' = [wmsg EXCEPT ![c] = Head(send[c])]
            /\ send' = [send EXCEPT ![c] = Tail(@)]
            /\ wpc' = [wpc EXCEPT ![c] = "write"]
       ELSE /\ chan[c] = "closed"
            /\ wpc' = [wpc EXCEPT ![c] = "closeFrame"]
            /\ UNCHANGED <<wmsg, send>>
    /\ UNCHANGED <<hubVars, chan, closeCount, dropped, enq, spc, rpc, cur, chatID,
                   conn, nRead, sock, dbVars, panicked, badSender>>

\* Mutant of WriteData: the payload is dropped and reported as written.
WriteDataSkip(c) ==
    /\ Alive
    /\ UNCHANGED <<envVars, mainVars, mapRace, wire, connCloses>>
    /\ wpc[c] = "write"
    /\ wpc' = [wpc EXCEPT ![c] = "recv"]
    /\ wmsg' = [wmsg EXCEPT ![c] = NoFrame]
    /\ UNCHANGED <<hubVars, chanVars, spc, rpc, cur, chatID, conn, nRead, dbVars,
                   panicked, badSender, sock>>

\* c.Conn.WriteMessage(websocket.TextMessage, message)
WriteData(c) ==
    /\ Alive
    /\ UNCHANGED <<envVars, mainVars, mapRace, wire, connCloses>>
    /\ wpc[c] = "write"
    /\ \E ok \in BOOLEAN :
         IF ok /\ conn[c] = "open"
         THEN /\ sock' = [sock EXCEPT ![c] = Append(@, [kind |-> "data", frame |-> wmsg[c]])]
              /\ wpc' = [wpc EXCEPT ![c] = "recv"]
         ELSE /\ wpc' = [wpc EXCEPT ![c] = "connClose"]
              /\ UNCHANGED sock
    /\ wmsg' = [wmsg EXCEPT ![c] = NoFrame]
    /\ UNCHANGED <<hubVars, chanVars, spc, rpc, cur, chatID, conn, nRead, dbVars,
                   panicked, badSender>>

\* c.Conn.WriteMessage(websocket.CloseMessage, []byte{}); return
WriteCloseFrame(c) ==
    /\ Alive
    /\ UNCHANGED <<envVars, mainVars, mapRace, wire, connCloses>>
    /\ wpc[c] = "closeFrame"
    /\ \E ok \in BOOLEAN :
         sock' = IF ok /\ conn[c] = "open"
                 THEN [sock EXCEPT ![c] = Append(@, [kind |-> "close", frame |-> NoFrame])]
                 ELSE sock
    /\ wpc' = [wpc EXCEPT ![c] = "connClose"]
    /\ UNCHANGED <<hubVars, chanVars, spc, rpc, cur, chatID, wmsg, conn, nRead,
                   dbVars, panicked, badSender>>

\* Mutant of WritePumpClose: writePump's cleanup also removes the client and
\* closes its channel, as readPump's unregister does.
WritePumpCloseUnregisters(c) ==
    /\ Alive
    /\ UNCHANGED <<envVars, mainVars, mapRace, wire>>
    /\ wpc[c] = "connClose"
    /\ conn' = [conn EXCEPT ![c] = "closed"]
    /\ connCloses' = [connCloses EXCEPT ![c] = @ + 1]
    /\ wpc' = [wpc EXCEPT ![c] = "done"]
    /\ Clients' = Clients \ {c}
    /\ chan' = [chan EXCEPT ![c] = "closed"]
    /\ closeCount' = [closeCount EXCEPT ![c] = @ + 1]
    /\ UNCHANGED <<hubPc, hubMsg, hubTodo, send, dropped, enq, spc, rpc, cur,
                   chatID, wmsg, nRead, sock, dbVars, panicked, badSender>>

\* The deferred c.Conn.Close() of writePump.
WritePumpClose(c) ==
    /\ Alive
    /\ UNCHANGED <<envVars, mainVars, mapRace, wire>>
    /\ wpc[c] = "connClose"
    /\ conn' = [conn EXCEPT ![c] = "closed"]
    /\ connCloses' = [connCloses EXCEPT ![c] = @ + 1]
    /\ wpc' = [wpc EXCEPT ![c] = "done"]
    /\ UNCHANGED <<hubVars, chanVars, spc, rpc, cur, chatID, wmsg, nRead, sock,
                   dbVars, panicked, badSender>>

\* ------------------------------------------------------------- main

\* <-quit: SIGINT or SIGTERM arrived; main goes on to its loop
\* `for client := range routes.Hub.Clients`.
MainSignal ==
    /\ Alive
    /\ mainPc = "serving"
    /\ mainPc' = "range"
    /\ mainSeen' = {}
    /\ UNCHANGED envVars
    /\ UNCHANGED <<hubVars, chanVars, spc, pumpVars, dbVars, panicked, mapRace,
                   wire, connCloses>>

\* What the range loop may produce next. Without a race: an entry of the map
\* not yet produced. After Hub.Run wrote the map under the loop the iterator
\* is undefined: it may also produce an entry the hub has deleted.
MainRangeNext ==
    (Clients \cup (IF mapRace THEN {c \in ClientSet : spc[c] \in {"spawn", "done"}}
                              ELSE {})) \ mainSeen

\* One iteration of the loop: client.Conn.Close()
MainClose(c) ==
    /\ Alive
    /\ mainPc = "range"
    /\ c \in MainRangeNext
    /\ mainSeen' = mainSeen \cup {c}
    /\ conn' = [conn EXCEPT ![c] = "closed"]
    /\ connCloses' = [connCloses EXCEPT ![c] = @ + 1]
    /\ UNCHANGED envVars
    /\ UNCHANGED <<hubVars, chanVars, spc, rpc, wpc, cur, chatID, wmsg, nRead,
                   sock, badSender, dbVars, panicked, mainPc, mapRace, wire>>

\* The loop ends, config.DB.Close(), main returns: the process exits with
\* whatever its goroutines were doing. Without a race the loop ends when
\* every entry was produced; after a racing write it may end having skipped
\* entries.
MainReturn ==
    /\ Alive
    /\ mainPc = "range"
    /\ Clients \subseteq mainSeen \/ mapRace
    /\ mainPc' = "done"
    /\ UNCHANGED envVars
    /\ UNCHANGED <<hubVars, chanVars, spc, pumpVars, dbVars, panicked, mainSeen,
                   mapRace, wire, connCloses>>

\* The runtime notices the racing write: "fatal error: concurrent map
\* iteration and map write".
MainFatal ==
    /\ Alive
    /\ mainPc = "range"
    /\ mapRace
    /\ panicked' = TRUE
    /\ UNCHANGED envVars
    /\ UNCHANGED <<hubVars, chanVars, spc, pumpVars, dbVars, mainVars, mapRace,
                   wire, connCloses>>

\* ------------------------------------------------------------- HTTP

\* The answer to a CreateChat request: http.Error with a status, or the
\* JSON response with the id models.CreateChat returned.
Answer(st, id) == [req EXCEPT !.pc = "idle", !.status = st, !.id = id]

\* controllers.CreateChat up to its call of models.CreateChat, for the
\* token of user u and participants <<p0, p1>>: the caller must be one of
\* the two.
CreateChat(u, p0, p1) ==
    /\ Alive
    /\ req.pc = "idle"
    /\ req.calls < MaxCalls
    /\ req' = IF u \notin {p0, p1}
              THEN [Answer(403, 0) EXCEPT !.calls = @ + 1, !.a = p0, !.b = p1,
                                          !.found = 0]
              ELSE [req EXCEPT !.pc = "select", !.calls = @ + 1, !.a = p0,
                               !.b = p1, !.found = 0, !.id = 0, !.status = 0]
    /\ UNCHANGED <<hubVars, chanVars, spc, pumpVars, dbVars, mainVars, pending,
                   history, quota, panicked, mapRace, wire, connCloses>>

\* CALL CreateChat for the request: SELECT id INTO existing_chat_id and the
\* branch on it.
RequestSelect ==
    /\ Alive
    /\ req.pc = "select"
    /\ \E err \in BOOLEAN :
         IF err
         THEN req' = Answer(500, 0)
         ELSE \E id \in ChatExistsResults(req.a, req.b) :
                req' = [req EXCEPT !.found = id,
                                   !.pc = IF id # 0 THEN "fetch" ELSE "insert"]
    /\ UNCHANGED <<hubVars, chanVars, spc, pumpVars, dbVars, mainVars, pending,
                   history, quota, panicked, mapRace, wire, connCloses>>

\* The procedure's INSERT INTO chats for the request.
RequestInsert ==
    /\ Alive
    /\ req.pc = "insert"
    /\ \E err \in BOOLEAN :
         IF err
         THEN req' = Answer(500, 0) /\ UNCHANGED chats
         ELSE /\ chats' = Append(chats, [sender_id |-> req.a, receiver_id |-> req.b])
              /\ req' = [req EXCEPT !.pc = "fetch"]
    /\ UNCHANGED <<hubVars, chanVars, spc, pumpVars, messages, mainVars, pending,
                   history, quota, panicked, mapRace, wire, connCloses>>

\* db.QueryRow("SELECT @chat_id").Scan(&chatID) for the request, and the
\* response.
RequestFetch ==
    /\ Alive
    /\ req.pc = "fetch"
    /\ \E err \in BOOLEAN :
         IF err
         THEN req' = Answer(500, 0)
         ELSE \E id \in SessionChatIds : req' = Answer(200, id)
    /\ UNCHANGED <<hubVars, chanVars, spc, pumpVars, dbVars, mainVars, pending,
                   history, quota, panicked, mapRace, wire, connCloses>>

\* SQL COALESCE(x, d) on a nullable value.
Coalesce(x, d) == IF x = Nil THEN Ptr(d) ELSE x

\* rows.Scan into a sql.NullString or sql.NullInt64 (zero is its zero
\* value).
ScanNull(x, zero) ==
    IF x = Nil THEN [Valid |-> FALSE, V |-> zero] ELSE [Valid |-> TRUE, V |-> x[1]]

\* The pointer models.GetChatHistory stores for a scanned nullable column.
ValidPtr(n) == IF n.Valid THEN Ptr(n.V) ELSE Nil

\* The ids of the messages of thread i, in id order.
MessagesOf(i) == {j \in 1..Len(messages) : messages[j].chat_id = i}

\* The Chat value models.GetChatHistory builds from one row of the
\* procedure's SELECT: thread i joined with its message j.
HistoryRow(i, j) ==
    [chat_id |-> i,
     message_id |-> j,
     text |-> messages[j].text,
     replied_message |->
         ValidPtr(ScanNull(Coalesce(messages[j].replied_message, ""), "")),
     replied_message_id |->
         ValidPtr(ScanNull(Coalesce(messages[j].replied_message_id, 0), 0)),
     is_read |-> messages[j].is_read]

\* The rows of the SELECT for the pair, ORDER BY thread then message id.
RECURSIVE HistoryRows(_, _)
HistoryRows(threads, from) ==
    IF threads = {}
    THEN <<>>
    ELSE LET i == CHOOSE x \in threads : \A y \in threads : x <= y
             js == {j \in MessagesOf(i) : j >= from}
         IN  IF js = {}
             THEN HistoryRows(threads \ {i}, 1)
             ELSE LET j == CHOOSE x \in js : \A y \in js : x <= y
                  IN  <<HistoryRow(i, j)>> \o HistoryRows(threads, j + 1)

\* The procedure's UPDATE: the messages of the pair's threads that u did
\* not send are marked read.
MarkedRead(u, r) ==
    [j \in 1..Len(messages) |->
        IF /\ messages[j].chat_id \in MatchingChats(u, r)
           /\ messages[j].sender_id # u
           /\ ~messages[j].is_read
        THEN [messages[j] EXCEPT !.is_read = TRUE]
        ELSE messages[j]]

\* controllers.GetChatHistory for the token of user u and ?receiver_id=r:
\* models.GetChatHistory runs CALL GetChatHistory and converts its rows. A
\* thread without messages gives a row whose date is '', which time.Parse
\* rejects: the answer is then the error.
GetChatHistory(u, r) ==
    /\ Alive
    /\ \E err \in BOOLEAN :
         IF err
         THEN /\ history' = [err |-> TRUE, chats |-> <<>>]
              /\ UNCHANGED messages
         ELSE /\ history' =
                    IF \E i \in MatchingChats(u, r) : MessagesOf(i) = {}
                    THEN [err |-> TRUE, chats |-> <<>>]
                    ELSE [err |-> FALSE,
                          chats |-> HistoryRows(MatchingChats(u, r), 1)]
              /\ messages' = MarkedRead(u, r)
    /\ UNCHANGED <<hubVars, chanVars, spc, pumpVars, chats, mainVars, pending,
                   req, quota, panicked, mapRace, wire, connCloses>>

\* ------------------------------------------------------------- peers

\* The peer of c writes body b as the fields of its next frame.
Compose(c, b) ==
    /\ Alive
    /\ conn[c] = "open"
    /\ rpc[c] = "read"
    /\ TotalRead < quota
    /\ pending[c] # b
    /\ pending' = [pending EXCEPT ![c] = b]
    /\ UNCHANGED <<hubVars, chanVars, spc, pumpVars, dbVars, mainVars, history,
                   req, quota, panicked, mapRace, wire, connCloses>>

\* ------------------------------------------------------------- system

RequestStep == RequestSelect \/ RequestInsert \/ RequestFetch

HubStep ==
    \E c \in ClientSet :
        HubRegister(c) \/ HubUnregister(c) \/ HubBroadcast(c) \/ HubOffer(c)

ServeStep == \E c \in ClientSet : ServeWs(c) \/ StartPumps(c)

\* A frame arrives on the socket of a client of S.
FrameStep(S) ==
    \E c \in S, decodable \in BOOLEAN, s \in Users :
        \E r \in Receivers(c) : ReadMessage(c, decodable, s, r)

ReadStep ==
    \E c \in ClientSet :
        \/ ReadError(c)
        \/ ChatExistsStep(c)
        \/ CreateChatSelect(c)
        \/ CreateChatInsert(c)
        \/ CreateChatFetch(c)
        \/ AddMessage(c)
        \/ WriteError(c)
        \/ ReadPumpClose(c)

WriteStep ==
    \E c \in ClientSet :
        WriteRecv(c) \/ WriteData(c) \/ WriteCloseFrame(c) \/ WritePumpClose(c)

\* Spec: every goroutine runs; the peer of c1 sends frames, the peer of c2
\* listens (and may go away).
Senders == {"c1"}

Next == HubStep \/ ServeStep \/ FrameStep(Senders) \/ ReadStep \/ WriteStep

Spec == Init /\ [][Next]_vars

\* The Hub.Run goroutine is scheduled, and a case of its select that stays
\* ready is taken: Go's select picks among the ready cases at random and a
\* channel's parked senders are queued first in, first out. Weak fairness is
\* the least of what that gives. Nothing is assumed of the pumps: a
\* writePump may never drain its channel.
HubFairness ==
    /\ WF_vars(\E c \in ClientSet : HubOffer(c))
    /\ \A c \in ClientSet :
           /\ WF_vars(HubRegister(c))
           /\ WF_vars(HubUnregister(c))
           /\ WF_vars(HubBroadcast(c))

FairSpec == Spec /\ HubFairness

MainStep ==
    MainSignal \/ (\E c \in ClientSet : MainClose(c)) \/ MainReturn \/ MainFatal

\* ShutdownSpec: Spec with the signal that ends the process.
ShutdownNext == Next \/ MainStep

ShutdownSpec == Init /\ [][ShutdownNext]_vars

\* The goroutines of a connection are scheduled: a writePump that can take
\* a step takes one, a readPump's store calls and sends return, ServeWs
\* starts the pumps, and ReadMessage on a socket that was closed returns its
\* error. Nothing makes a peer send a frame or go away.
PumpFairness ==
    \A c \in ClientSet :
        /\ WF_vars(StartPumps(c))
        /\ WF_vars(WriteRecv(c) \/ WriteData(c) \/ WriteCloseFrame(c)
                      \/ WritePumpClose(c))
        /\ WF_vars(ChatExistsStep(c) \/ CreateChatSelect(c) \/ CreateChatInsert(c)
                      \/ CreateChatFetch(c) \/ AddMessage(c) \/ WriteError(c)
                      \/ ReadPumpClose(c))
        /\ WF_vars(conn[c] = "closed" /\ ReadError(c))

LiveSpec == Spec /\ HubFairness /\ PumpFairness

\* StoreSpec: both peers send frames, so two routers use the store at once;
\* the write pumps are never scheduled (every consumer is slow).
StoreNext == HubStep \/ ServeStep \/ FrameStep(ClientSet) \/ ReadStep

StoreSpec == Init /\ [][StoreNext]_vars

\* ------------------------------------------------------------- helpers

IsPrefix(a, b) == Len(a) <= Len(b) /\ SubSeq(b, 1, Len(a)) = a

Range(q) == {q[i] : i \in 1..Len(q)}

\* The data frames among what was written to a socket, in order.
RECURSIVE DataFrames(_)
DataFrames(q) ==
    IF q = <<>> THEN <<>>
    ELSE IF Head(q).kind = "data"
         THEN <<Head(q).frame>> \o DataFrames(Tail(q))
         ELSE DataFrames(Tail(q))

\* The number of close frames among what was written to a socket.
CloseFrames(q) == Cardinality({i \in 1..Len(q) : q[i].kind = "close"})

ErrorFrames(q) == {q[i].frame : i \in {j \in 1..Len(q) : q[j].kind = "error"}}

Persisted == {messages[i].frame : i \in 1..Len(messages)}

\* readPump positions between the frame checks and the outcome of AddMessage.
StoreStages == {"exists", "createSelect", "createInsert", "createFetch", "add"}

ReadRunning(c) == rpc[c] \notin {"off", "done"}

WriteRunning(c) == wpc[c] \notin {"off", "done"}

\* ------------------------------------------------------------- C1

\* C1: in every interleaving of registrations, unregistrations and
\* broadcasts, c.send is closed at most once and no close or send hits a
\* closed channel (no panic); a client leaves Hub.Clients in exactly the
\* steps that close its channel; the hub puts a payload on c.send only
\* while it is open.
C1_CloseOnceWithRemoval ==
    /\ [](~panicked /\ \A c \in ClientSet : closeCount[c] <= 1)
    /\ [][\A c \in ClientSet :
            /\ (c \in Clients /\ c \notin Clients')
                   <=> (chan[c] = "open" /\ chan'[c] = "closed")
            /\ chan[c] = "closed" => chan'[c] = "closed"
            /\ enq'[c] # enq[c] => chan[c] = "open" /\ chan'[c] = "open"]_vars

\* A client was dropped by a broadcast and its readPump's unregister was
\* then taken by the hub; another was unregistered without being dropped.
C1_Witness ==
    \E c \in dropped, d \in ClientSet \ dropped :
        /\ rpc[c] = "done" /\ closeCount[c] = 1
        /\ rpc[d] = "done" /\ closeCount[d] = 1

\* ------------------------------------------------------------- C2

\* C2: when the hub offers the payload to a client whose channel is full,
\* that client is removed and its channel closed, with nothing added to it;
\* a client with free capacity gets the payload appended and stays
\* registered; no offer touches another client; the offer is never blocked,
\* so the range over the clients ends; every client the running broadcast
\* has visited and kept has the payload as its latest.
C2_BroadcastIsolation ==
    /\ [](hubPc = "bcast" =>
            /\ hubTodo # {} /\ hubTodo \subseteq Clients
            /\ \A c \in hubTodo : ENABLED HubOffer(c)
            /\ \A c \in Clients \ hubTodo :
                   enq[c] # <<>> /\ enq[c][Len(enq[c])] = hubMsg)
    /\ [][\A c \in ClientSet : HubOffer(c) =>
            /\ IF Len(send[c]) >= SendCap
               THEN /\ c \notin Clients' /\ chan'[c] = "closed"
                    /\ send'[c] = send[c]
               ELSE /\ c \in Clients' /\ chan'[c] = "open"
                    /\ send'[c] = Append(send[c], hubMsg)
            /\ \A d \in ClientSet \ {c} :
                   /\ d \in Clients' <=> d \in Clients
                   /\ send'[d] = send[d] /\ chan'[d] = chan[d]
            /\ hubTodo' = hubTodo \ {c}
            /\ hubPc' = "select" <=> hubTodo' = {}]_vars

\* One broadcast dropped k (full channel) and gave the payload to d, which
\* is still registered; the hub is back at its select.
C2_Witness ==
    \E k \in dropped, d \in Clients :
        /\ hubPc = "select"
        /\ chan[k] = "closed"
        /\ Len(enq[d]) = SendCap + 1 /\ Len(enq[k]) = SendCap

\* ------------------------------------------------------------- C3

\* C3: Hub.Run never waits for a client. While it fans a payload out every
\* offer can be taken at once, at its select every parked sender can be
\* taken, and under HubFairness the range ends and every goroutine parked
\* on hub.register, hub.unregister or hub.broadcast is accepted, whatever
\* the write pumps do.
C3_HubNeverBlocks ==
    /\ [](hubPc = "bcast" => \A c \in hubTodo : ENABLED HubOffer(c))
    /\ [](hubPc = "select" => \A c \in ClientSet :
            /\ spc[c] = "register" => ENABLED HubRegister(c)
            /\ rpc[c] = "unreg" => ENABLED HubUnregister(c)
            /\ rpc[c] = "bcast" => ENABLED HubBroadcast(c))
    /\ (hubPc = "bcast") ~> (hubPc = "select")
    /\ \A c \in ClientSet :
            /\ (spc[c] = "register") ~> (spc[c] = "spawn")
            /\ (rpc[c] = "unreg") ~> (rpc[c] = "connClose")
            /\ (rpc[c] = "bcast") ~> (rpc[c] = "read")

\* The hub is fanning out and has still to offer to k, whose channel is
\* full and whose writePump has drained nothing, while another goroutine is
\* parked on hub.unregister.
C3_Witness ==
    \E k \in hubTodo, c \in ClientSet :
        /\ hubPc = "bcast"
        /\ Len(send[k]) = SendCap /\ wpc[k] = "recv" /\ sock[k] = <<>>
        /\ rpc[c] = "unreg"

\* ------------------------------------------------------------- C4

C5_SenderMismatchDropped ==
    /\ [](\A c \in ClientSet :
            /\ cur[c] # NoFrame =>
                   cur[c].origin = c /\ cur[c].sender_id = ClientID(c)
            /\ \A f \in Persisted \cup Range(enq[c]) \cup Range(send[c])
                        \cup (IF hubPc = "bcast" THEN {hubMsg} ELSE {}) :
                   f.sender_id = ClientID(f.origin))
    /\ [][\A c \in ClientSet, s \in Users, r \in Users :
            ReadMessage(c, TRUE, s, r) /\ s # ClientID(c) =>
                /\ rpc'[c] = "read" /\ cur'[c] = NoFrame
                /\ UNCHANGED <<hubVars, chanVars, dbVars, sock, conn, wpc>>]_vars

\* c dropped a frame for its sender_id, is still registered, and a later
\* frame of c was saved.
C5_Witness ==
    \E c \in Clients :
        /\ badSender[c] > 0
        /\ \E f \in Persisted : f.origin = c

\* ------------------------------------------------------------- C6

\* C6 (as claimed): however the two routers' ChatExists, SELECT and INSERT
\* interleave, a pair of participants has at most one row of chats, and
\* every saved message is in the thread of its pair.
C6_OneThreadPerPair ==
    /\ \A a \in Users, b \in Users : Cardinality(MatchingChats(a, b)) <= 1
    /\ \A i \in 1..Len(messages) :
           MatchingChats(messages[i].sender_id, messages[i].receiver_id)
               = {messages[i].chat_id}

\* ------------------------------------------------------------- C7

\* C7: readPump reaches the send on hub.broadcast only from a successful
\* AddMessage of the very frame, and every payload at that send, in the
\* hub's hands, queued or ever enqueued is a saved frame; a frame answered
\* with an error was never enqueued.
C7_BroadcastOnlyAfterPersist ==
    /\ [](\A c \in ClientSet :
            /\ rpc[c] = "bcast" => cur[c] \in Persisted
            /\ Range(enq[c]) \cup Range(send[c]) \subseteq Persisted
            /\ hubPc = "bcast" => hubMsg \in Persisted
            /\ \A d \in ClientSet : ErrorFrames(sock[d]) \cap Range(enq[c]) = {})
    /\ [][\A c \in ClientSet :
            /\ (rpc[c] # "bcast" /\ rpc'[c] = "bcast") =>
                   /\ rpc[c] = "add"
                   /\ Len(messages') = Len(messages) + 1
                   /\ messages'[Len(messages')].frame = cur[c]
            /\ (rpc[c] \in StoreStages \cup {"errWrite"} /\ rpc'[c] = "read") =>
                   cur[c] \notin Persisted']_vars

\* One frame of c failed in AddMessage and was answered with an error,
\* another was saved and enqueued.
C7_Witness ==
    \E c \in ClientSet :
        /\ ErrorFrames(sock[c]) # {}
        /\ enq[c] # <<>>

\* ------------------------------------------------------------- C8

\* C8 (as claimed): a frame that entered the store calls leaves them only
\* to the error reply or to the broadcast, never silently; the error reply
\* is written to the originating socket alone, and the client stays
\* registered and reads on.
C8_EveryStoreErrorReported ==
    [][\A c \in ClientSet :
         /\ (rpc[c] \in StoreStages /\ rpc'[c] \notin StoreStages) =>
                rpc'[c] \in {"errWrite", "bcast"}
         /\ WriteError(c) =>
                /\ \A d \in ClientSet \ {c} : sock'[d] = sock[d]
                /\ rpc'[c] = "read"
                /\ UNCHANGED <<Clients, chan>>]_vars

\* ------------------------------------------------------------- C9

\* C9: the unregister case applied to a client that is not registered
\* changes neither the registry nor any channel and closes nothing, and
\* applied twice it leaves what it leaves applied once; the hub's step for
\* a client already gone (dropped by a broadcast) changes nothing of the
\* hub or of the channels.
C9_UnregisterIdempotent ==
    /\ [](\A c \in ClientSet :
            LET r1 == UnregisterCase(Clients, chan, c)
                r2 == UnregisterCase(r1.Clients, r1.chan, c)
            IN  /\ r2.Clients = r1.Clients /\ r2.chan = r1.chan
                /\ ~r2.closed /\ ~r2.panic /\ ~r1.panic
                /\ c \notin Clients =>
                       r1.Clients = Clients /\ r1.chan = chan /\ ~r1.closed)
    /\ [][\A c \in ClientSet :
            HubUnregister(c) /\ c \notin Clients =>
                UNCHANGED <<hubVars, chanVars, panicked>>]_vars

\* The hub has just taken the unregister of a client a broadcast had
\* dropped.
C9_Witness ==
    \E c \in dropped : rpc[c] = "connClose" /\ chan[c] = "closed"

\* ------------------------------------------------------------- C10

\* C10 (as claimed): a client is registered exactly when its channel is
\* open and both its pumps are running.
C10_RegisteredIffLive ==
    \A c \in ClientSet :
        c \in Clients <=> (chan[c] = "open" /\ ReadRunning(c) /\ WriteRunning(c))

\* C10 (amended): a registered client has its channel open and a readPump
\* whose unregister the hub has not taken (it may not have started, and the
\* writePump may be gone); a client with an open channel and both pumps
\* running is registered.
C10_RegisteredImpliesOpen ==
    \A c \in ClientSet :
        /\ c \in Clients => chan[c] = "open" /\ rpc[c] \notin {"connClose", "done"}
        /\ (chan[c] = "open" /\ ReadRunning(c) /\ WriteRunning(c)) => c \in Clients

\* c is registered although its writePump has returned after a write error.
C10_Witness ==
    \E c \in Clients : wpc[c] = "done" /\ ReadRunning(c)

\* ------------------------------------------------------------- C11

\* C11 (as claimed): Hub.Clients changes only in steps of Hub.Run, and no
\* step of Hub.Run writes the map while another goroutine (main's shutdown
\* loop, the only other code that touches it) is ranging over it.
C11_ClientsOwnedByRun ==
    /\ [][Clients' # Clients =>
            \E c \in ClientSet : HubRegister(c) \/ HubUnregister(c) \/ HubOffer(c)]_vars
    /\ [][mainPc = "range" => Clients' = Clients]_vars
    /\ []~mapRace

\* ------------------------------------------------------------- C12

\* C12 (as claimed): when main has returned after the signal, no client is
\* registered and no connection has an open socket, whether it registered
\* before the signal or while the shutdown loop ran.
C12_ShutdownClosesAll ==
    mainPc = "done" =>
        \A c \in ClientSet : c \notin Clients /\ conn[c] # "open"

\* ------------------------------------------------------------- C13

\* readPump is in a write call on c's socket: c.Conn.WriteJSON.
ReadPumpWriting(c) == rpc[c] = "errWrite"

\* writePump is in a write call on c's socket: c.Conn.WriteMessage with a
\* data frame or with the close frame.
WritePumpWriting(c) == wpc[c] \in {"write", "closeFrame"}

\* C13 (as claimed): the two pumps of a connection are never both in a
\* write call on its socket.
C13_SingleSocketWriter ==
    \A c \in ClientSet : ~(ReadPumpWriting(c) /\ WritePumpWriting(c))

\* ------------------------------------------------------------- C14

\* C14: every payload in the hub's hands, on a send channel, ever enqueued,
\* in a writePump's hands or written as a data frame is, field for field,
\* a frame that a readPump read from a socket; its chat_id is the one the
\* peer sent, not the thread id readPump found or created.
C14_ExactBytes ==
    \A c \in ClientSet :
        /\ Range(enq[c]) \cup Range(send[c]) \cup Range(DataFrames(sock[c]))
               \subseteq wire
        /\ wpc[c] = "write" => wmsg[c] \in wire
        /\ hubPc = "bcast" => hubMsg \in wire

\* A frame read from one socket was saved under a thread id it does not
\* carry and was written, as read, to another connection's socket.
C14_Witness ==
    \E c \in ClientSet, i \in 1..Len(messages) :
        /\ messages[i].frame \in Range(DataFrames(sock[c]))
        /\ messages[i].frame.origin # c
        /\ messages[i].chat_id # messages[i].frame.chat_id

\* ------------------------------------------------------------- C15

\* C15 (as claimed): under fair scheduling the n-th payload the hub put on
\* c.send is eventually the n-th data frame on c's socket, unless a
\* broadcast dropped c for a full channel.
C15_EveryPayloadWritten ==
    \A c \in ClientSet : \A n \in 1..MaxFrames :
        (Len(enq[c]) >= n) ~> (Len(DataFrames(sock[c])) >= n \/ c \in dropped)

\* C15 (amended): under fair scheduling the n-th payload the hub put on
\* c.send is eventually the n-th data frame on c's socket, unless writePump
\* has stopped: a write on the socket failed, or the channel was closed and
\* drained.
C15_WrittenUnlessWriteFails ==
    \A c \in ClientSet : \A n \in 1..MaxFrames :
        (Len(enq[c]) >= n) ~>
            (Len(DataFrames(sock[c])) >= n \/ wpc[c] \in {"connClose", "done"})

\* A payload was enqueued for c and will never be written: c was not
\* dropped, its writePump has returned after a failed write.
C15_Witness ==
    \E c \in ClientSet \ dropped :
        /\ wpc[c] = "done"
        /\ Len(DataFrames(sock[c])) < Len(enq[c])

\* ------------------------------------------------------------- C16

\* readPump has left its loop and sent, or is sending, its unregister.
UnregisterIssued(c) == rpc[c] \in {"unreg", "connClose", "done"}

\* C16 (as claimed): a connection's unregister request is issued once, by
\* readPump's cleanup and before that cleanup closes the socket, never
\* again; and c.Conn.Close() runs at most once for the connection,
\* whichever pump exits first.
C16_OneUnregisterOneClose ==
    /\ [](\A c \in ClientSet : connCloses[c] <= 1)
    /\ [][\A c \in ClientSet :
            /\ UnregisterIssued(c) => UnregisterIssued(c)'
            /\ (rpc[c] # "unreg" /\ rpc'[c] = "unreg") => rpc[c] = "read"
            /\ conn'[c] # conn[c] /\ rpc'[c] # rpc[c] => rpc[c] = "connClose"]_vars

\* ------------------------------------------------------------- C17

\* C17: writePump leaves its loop only from the close frame it writes on
\* finding c.send closed and empty, or from a data write that failed; it
\* writes at most one close frame and, once out of the loop, no frame at
\* all; no step of writePump changes the registry, the state of a send
\* channel, the hub or a readPump, so a failed write closes no channel and
\* asks for no unregister.
C17_WritePumpStops ==
    /\ [](\A c \in ClientSet : CloseFrames(sock[c]) <= 1)
    /\ [][\A c \in ClientSet :
            /\ (wpc[c] # "connClose" /\ wpc'[c] = "connClose") =>
                   \/ wpc[c] = "closeFrame"
                   \/ wpc[c] = "write" /\ sock'[c] = sock[c]
            /\ (wpc[c] # "closeFrame" /\ wpc'[c] = "closeFrame") =>
                   chan[c] = "closed" /\ send[c] = <<>>
            /\ wpc[c] \in {"connClose", "done"} =>
                   /\ wpc'[c] \in {"connClose", "done"}
                   /\ DataFrames(sock'[c]) = DataFrames(sock[c])
                   /\ CloseFrames(sock'[c]) = CloseFrames(sock[c])
            /\ (wpc[c] # "off" /\ wpc'[c] # wpc[c]) =>
                   UNCHANGED <<Clients, chan, closeCount, hubPc, hubTodo, rpc>>]_vars

\* c's writePump returned after the close frame; d's writePump returned on
\* a failed write while d is still registered with its channel open.
C17_Witness ==
    \E c \in ClientSet, d \in Clients :
        /\ wpc[c] = "done" /\ CloseFrames(sock[c]) = 1
        /\ wpc[d] = "done" /\ chan[d] = "open" /\ closeCount[d] = 0

\* ------------------------------------------------------------- C18

\* The terminal state of a connection.
Closed(c) ==
    /\ c \notin Clients
    /\ chan[c] = "closed"
    /\ conn[c] = "closed"
    /\ rpc[c] = "done"
    /\ wpc[c] = "done"

\* C18: under fair scheduling, a connection whose readPump left its loop on
\* a read error, or whose writePump left its loop (on a write error, or
\* after the close frame), ends removed from the registry, with its
\* channel and socket closed and both pumps returned, and stays so.
C18_ErrorLeadsToClosed ==
    \A c \in ClientSet :
        /\ (rpc[c] = "unreg" \/ wpc[c] = "connClose") ~> Closed(c)
        /\ [](Closed(c) => []Closed(c))

\* c is in its terminal state after a write error in its writePump: a
\* payload enqueued for it was never written, and it was not dropped.
C18_Witness ==
    \E c \in ClientSet \ dropped :
        /\ Closed(c)
        /\ Len(DataFrames(sock[c])) < Len(enq[c])
        /\ CloseFrames(sock[c]) = 0

\* ------------------------------------------------------------- C19

\* The frames read so far that did not decode.
Undecoded == {f \in wire : f = Malformed(f.origin, f.seq)}

\* C19: a frame that does not decode makes readPump go back to reading
\* with nothing kept of it: the store, the hub, every channel, every
\* socket, both pumps of every other connection and this connection's
\* writePump are untouched; such a frame is never in handling, saved,
\* broadcast or enqueued.
C19_UndecodableDropped ==
    /\ [](\A c \in ClientSet :
            /\ cur[c] \notin Undecoded
            /\ (Range(enq[c]) \cup Persisted) \cap Undecoded = {})
    /\ [][\A c \in ClientSet, s \in Users, r \in Users :
            ReadMessage(c, FALSE, s, r) =>
                /\ rpc'[c] = "read" /\ cur'[c] = NoFrame
                /\ \A d \in ClientSet \ {c} : rpc'[d] = rpc[d] /\ cur'[d] = cur[d]
                /\ UNCHANGED <<hubVars, chanVars, dbVars, sock, conn, wpc, wmsg,
                               spc, connCloses, panicked>>]_vars

\* c read a frame that did not decode, is still registered with its
\* channel open, and a later frame of c was saved.
C19_Witness ==
    \E c \in Clients, f \in Undecoded, g \in Persisted :
        /\ chan[c] = "open"
        /\ f.origin = c /\ g.origin = c /\ g.seq > f.seq

\* ------------------------------------------------------------- C20

\* C20: a ServeWs call that found the token missing or rejected has
\* answered 401 and returned with no upgraded socket and no Client (no send
\* channel); it is not registered, is not parked on hub.register, has no
\* pump, and never gets any of these; the step that rejects the token
\* changes nothing but the position of that call.
C20_BadTokenRejectedBeforeUpgrade ==
    /\ [](\A c \in ClientSet : spc[c] = "unauthorized" =>
            /\ conn[c] = "none" /\ chan[c] = "nil"
            /\ c \notin Clients
            /\ rpc[c] = "off" /\ wpc[c] = "off"
            /\ ~ENABLED HubRegister(c) /\ ~ENABLED StartPumps(c))
    /\ [][\A c \in ClientSet :
            /\ spc[c] = "unauthorized" => spc'[c] = "unauthorized"
            /\ (spc[c] # "unauthorized" /\ spc'[c] = "unauthorized") =>
                   /\ spc[c] = "idle"
                   /\ UNCHANGED <<hubVars, chanVars, pumpVars, dbVars, panicked>>]_vars

\* One request was rejected for its token while another connection is
\* registered with its pumps running.
C20_Witness ==
    \E c \in ClientSet, d \in Clients :
        /\ spc[c] = "unauthorized"
        /\ ReadRunning(d) /\ WriteRunning(d)

\* ------------------------------------------------------------- C21

\* C21: the hub step that takes c's unregister, and the Close of c's
\* readPump cleanup after it, leave every other client as it was: in or out
\* of the registry, its channel open or closed, the payloads queued on it,
\* its socket, its pumps.
C21_UnregisterTouchesOnlyOne ==
    [][\A c \in ClientSet :
         HubUnregister(c) \/ ReadPumpClose(c) =>
             \A d \in ClientSet \ {c} :
                 /\ d \in Clients' <=> d \in Clients
                 /\ chan'[d] = chan[d] /\ send'[d] = send[d]
                 /\ conn'[d] = conn[d] /\ sock'[d] = sock[d]
                 /\ rpc'[d] = rpc[d] /\ wpc'[d] = wpc[d]]_vars

\* The hub has just unregistered c after a read error, while another
\* client is registered with a payload waiting on its open channel.
C21_Witness ==
    \E c \in ClientSet \ dropped, d \in Clients :
        /\ rpc[c] = "connClose" /\ chan[c] = "closed"
        /\ chan[d] = "open" /\ send[d] # <<>>

\* ------------------------------------------------------------- C22

StoreIdle == req.pc = "idle" /\ \A c \in ClientSet : rpc[c] \notin StoreStages

\* A frame is read when no other one is being stored.
SeqFrameStep == StoreIdle /\ FrameStep(ClientSet)

\* A CreateChat request arrives when nothing is being stored.
SeqCallStep ==
    StoreIdle /\ \E u \in Users, p0 \in Users, p1 \in Users : CreateChat(u, p0, p1)

\* SeqSpec: both peers send frames and CreateChat requests arrive, one
\* after the other: each is taken up when the store work of the one before
\* is over. The write pumps are never scheduled.
SeqNext ==
    HubStep \/ ServeStep \/ ReadStep \/ RequestStep \/ SeqFrameStep \/ SeqCallStep

SeqSpec == Init /\ [][SeqNext]_vars

\* The participants of row i of chats, as an unordered pair.
Pair(i) == {chats[i].sender_id, chats[i].receiver_id}

\* C23: when chat messages and CreateChat calls do not overlap, no two rows
\* of chats have the same unordered pair of participants.
C23_SequentialOneThread ==
    \A i \in 1..Len(chats), j \in 1..Len(chats) : Pair(i) = Pair(j) => i = j

\* A message from B to A is saved in the thread that was created for (A, B).
C23_Witness ==
    \E m \in 1..Len(messages) :
        /\ messages[m].sender_id # messages[m].receiver_id
        /\ chats[messages[m].chat_id].sender_id = messages[m].receiver_id
        /\ chats[messages[m].chat_id].receiver_id = messages[m].sender_id

\* ------------------------------------------------------------- C24

\* C24: the register case cannot fail: a request the hub can receive is
\* processed without a panic and puts c, and nothing else, in Hub.Clients;
\* every broadcast the hub then takes up while c is registered has c among
\* the clients of its loop, c leaves the loop only by being offered the
\* payload, and the loop ends only when no client is left; storing a key
\* the map already holds changes nothing.
C24_RegisterNeverFails ==
    /\ [](\A c \in ClientSet :
             /\ (Alive /\ hubPc = "select" /\ spc[c] = "register")
                    => ENABLED HubRegister(c)
             /\ c \in Clients => Registered(Clients, c) = Clients)
    /\ [](hubPc = "select" => hubTodo = {})
    /\ [][\A c \in ClientSet :
             /\ HubRegister(c)
                    => /\ c \in Clients'
                       /\ Clients' \ {c} = Clients \ {c}
                       /\ ~panicked'
             /\ (c \in Clients /\ \E d \in ClientSet : HubBroadcast(d))
                    => c \in hubTodo'
             /\ (c \in hubTodo /\ c \notin hubTodo') => HubOffer(c)
             /\ (HubOffer(c) /\ chan[c] = "open" /\ CanSend(c))
                    => enq'[c] = Append(enq[c], hubMsg)]_vars

\* c2 registered, a broadcast was then taken up and the payload was put on
\* c2.send while c2 is still registered.
C24_Witness ==
    /\ "c2" \in Clients
    /\ Len(enq["c2"]) = 1
    /\ send["c2"] = enq["c2"]

\* ------------------------------------------------------------- C25

\* The loop of the broadcast under way has put the payload on d.send and
\* has not come to c yet.
ServedBefore(d, c) ==
    /\ hubPc = "bcast"
    /\ c \in hubTodo
    /\ hubMsg \in Range(enq[d])

\* C25: if c was registered while d was not yet, no broadcast enqueues its
\* payload for d before it enqueues it for c.
C25_RegistrationOrder ==
    \A c \in ClientSet : \A d \in ClientSet \ {c} :
        []((c \in Clients /\ spc[d] \in {"idle", "register"})
               => []~ServedBefore(d, c))

\* ------------------------------------------------------------- C26

\* A frame that replies to message id and quotes text.
Reply(text, id) ==
    [PlainBody EXCEPT !.replied_message = Ptr(text), !.replied_message_id = Ptr(id)]

\* What the peer of a sender writes in ContentSpec: the plain envelope, one
\* that says it was read already, a reply to message 1 quoting its text,
\* one quoting another text, and one with an empty quote and id 0.
ContentBodies ==
    {PlainBody,
     [PlainBody EXCEPT !.is_read = TRUE],
     Reply("hi", 1),
     Reply("bye", 1),
     Reply("", 0)}

ComposeStep(S, B) == \E c \in S, b \in B : Compose(c, b)

HistoryStep == \E u \in Users, r \in Users : GetChatHistory(u, r)

\* ContentSpec: the peer of c1 sends frames of its choice and users ask for
\* the history of their threads; the write pumps are never scheduled.
ContentNext ==
    \/ HubStep
    \/ ServeStep
    \/ ComposeStep(Senders, ContentBodies)
    \/ FrameStep(Senders)
    \/ ReadStep
    \/ HistoryStep

ContentSpec == Init /\ [][ContentNext]_vars

\* C26: a row that readPump's AddMessage adds to messages has is_read
\* false.
C26_StoredUnread ==
    [][\A c \in ClientSet :
          (AddMessage(c) /\ Len(messages') > Len(messages))
              => ~messages'[Len(messages')].is_read]_vars

\* ------------------------------------------------------------- C29

\* C29: in an answer of GetChatHistory, a message stored without a reply
\* (both reply columns NULL) has RepliedMessage and RepliedMessageID nil.
C29_NoReplyIsNil ==
    ~history.err =>
        \A k \in 1..Len(history.chats) :
            LET h == history.chats[k]
                row == messages[h.message_id]
            IN  (row.replied_message = Nil /\ row.replied_message_id = Nil)
                    => (h.replied_message = Nil /\ h.replied_message_id = Nil)

\* ------------------------------------------------------------- C30

\* C30: a stored reply to message m quotes the text of m, and m is a
\* message of the same thread.
C30_QuoteIsOriginalText ==
    \A j \in 1..Len(messages) :
        messages[j].replied_message_id # Nil =>
            LET m == messages[j].replied_message_id[1]
            IN  /\ m \in 1..Len(messages)
                /\ messages[m].chat_id = messages[j].chat_id
                /\ messages[j].replied_message = Ptr(messages[m].text)

\* ------------------------------------------------------------- C27

\* The users of ThreadSpec: user 3 has no connection and is written to.
Accounts == Users \cup {3}

\* What the peer of a sender writes in ThreadSpec: chat_id 0, the id of
\* the first thread, or a reply to message 1.
ThreadBodies ==
    {PlainBody,
     [PlainBody EXCEPT !.chat_id = 1],
     [PlainBody EXCEPT !.replied_message = Ptr("hi"), !.replied_message_id = Ptr(1)]}

\* A frame for any other user arrives on the socket of a sender.
ThreadFrameStep ==
    \E c \in Senders, decodable \in BOOLEAN, s \in Users :
        \E r \in Accounts \ {ClientID(c)} : ReadMessage(c, decodable, s, r)

\* Only the senders connect.
ThreadServeStep == \E c \in Senders : ServeWs(c) \/ StartPumps(c)

\* ThreadSpec: c1 is the only connection; its peer writes to users 2 and 3
\* with a chat_id of its choice; the write pump is never scheduled.
ThreadNext ==
    \/ HubStep
    \/ ThreadServeStep
    \/ ComposeStep(Senders, ThreadBodies)
    \/ ThreadFrameStep
    \/ ReadStep

ThreadSpec == Init /\ [][ThreadNext]_vars

\* C27: every stored message is in a thread that exists and whose two
\* participants are the sender and the receiver of its frame, whatever
\* chat_id the frame carried.
C27_StoredInThreadOfPair ==
    \A j \in 1..Len(messages) :
        /\ messages[j].chat_id \in 1..Len(chats)
        /\ Pair(messages[j].chat_id)
               = {messages[j].frame.sender_id, messages[j].frame.receiver_id}

\* A message was stored whose frame named the thread of another pair.
C27_Witness ==
    \E j \in 1..Len(messages) :
        /\ messages[j].frame.chat_id \in 1..Len(chats)
        /\ Pair(messages[j].frame.chat_id) # Pair(messages[j].chat_id)

\* ------------------------------------------------------------- C28

\* A user asks for a thread of theirs with any user.
CallStep == \E u \in Users, p1 \in Accounts : CreateChat(u, u, p1)

\* CallSpec: ThreadSpec with a CreateChat request served next to the
\* frames.
CallNext == ThreadNext \/ CallStep \/ RequestStep

CallSpec == Init /\ [][CallNext]_vars

\* C28: a CreateChat request for a pair that has a thread inserts no row,
\* and when it succeeds it answers with the id of that thread.
C28_CreateChatIdempotent ==
    [][/\ (RequestSelect /\ MatchingChats(req.a, req.b) # {})
              => (chats' = chats /\ req'.pc # "insert")
       /\ (RequestFetch /\ req.found # 0 /\ req'.status = 200)
              => (chats' = chats /\ req'.id = req.found)]_vars

\* ------------------------------------------------------------- C31

\* The hub has received the register request of c.
Accepted(c) == spc[c] \in {"spawn", "done"}

\* C31: a pump of c runs, and so an unregister request for c is issued,
\* only after the hub accepted c's register request; c enters Hub.Clients
\* only by that one acceptance, which never repeats, so it is added at most
\* once and is never in the registry again once removed.
C31_Lifecycle ==
    /\ [](\A c \in ClientSet :
             /\ (rpc[c] # "off" \/ wpc[c] # "off") => spc[c] = "done"
             /\ c \in Clients => Accepted(c))
    /\ [][\A c \in ClientSet :
             /\ (c \notin Clients /\ c \in Clients')
                    => (~Accepted(c) /\ Accepted(c)' /\ HubRegister(c))
             /\ Accepted(c) => Accepted(c)'
             /\ (rpc[c] # "unreg" /\ rpc'[c] = "unreg") => Accepted(c)]_vars

\* A connection went through its whole life: registered, removed with its
\* channel closed once, both pumps returned.
C31_Witness ==
    \E c \in ClientSet :
        /\ Accepted(c)
        /\ c \notin Clients
        /\ closeCount[c] = 1
        /\ rpc[c] = "done"
        /\ wpc[c] = "done"

\* ------------------------------------------------------------- C32

\* C32: a payload is put on c.send only by an iteration of the hub's
\* broadcast loop, c.send is closed only by the hub's unregister case or
\* its broadcast loop, and a payload leaves c.send only by the receive of
\* c's own writePump.
C32_HubOwnsSend ==
    [][\A c \in ClientSet :
          /\ (Len(send'[c]) > Len(send[c]) \/ enq'[c] # enq[c]) => HubOffer(c)
          /\ (closeCount'[c] # closeCount[c] \/ (chan[c] = "open" /\ chan'[c] # "open"))
                 => (HubUnregister(c) \/ HubOffer(c))
          /\ Len(send'[c]) < Len(send[c]) => WriteRecv(c)]_vars

\* A payload was put on a channel and taken off it, and the channel was
\* closed by the time the connection ended.
C32_Witness ==
    \E c \in ClientSet :
        /\ Len(enq[c]) > Len(send[c])
        /\ chan[c] = "closed"
        /\ rpc[c] = "done"

\* ------------------------------------------------------------- C33

\* DropSpec: c1 is the only connection and its peer sends one frame more
\* than in Spec, enough to fill c1.send, have c1 dropped and be read from
\* again.
DropNext ==
    \/ HubStep
    \/ ThreadServeStep
    \/ FrameStep(Senders)
    \/ ReadStep
    \/ WriteStep

DropSpec == Start(MaxFrames + 1) /\ [][DropNext]_vars

\* C33: readPump takes up a frame only for a client that is in Hub.Clients,
\* and for a client that is not in Hub.Clients it adds no thread, saves no
\* message and hands no payload to the hub.
C33_OnlyRegisteredFrames ==
    [][\A c \in ClientSet :
          c \notin Clients =>
              /\ ~(rpc[c] = "read" /\ rpc'[c] = "exists")
              /\ ~(CreateChatInsert(c) /\ chats' # chats)
              /\ ~(AddMessage(c) /\ messages' # messages)
              /\ ~HubBroadcast(c)]_vars

\* ------------------------------------------------------------- C34

\* Two payloads that were both enqueued for c and for d were enqueued in
\* the same order for both.
SameOrder(c, d) ==
    \A i \in 1..Len(enq[c]), j \in 1..Len(enq[c]) :
        \A k \in 1..Len(enq[d]), l \in 1..Len(enq[d]) :
            (i < j /\ enq[c][i] = enq[d][k] /\ enq[c][j] = enq[d][l]) => k < l

\* C34: any two clients have the payloads they share in the same order;
\* the clients of a broadcast's loop are those registered when the hub
\* received the payload, and until the loop is over no client is
\* registered, the registry and the loop lose only the client being
\* served, and the payload stays the same.
C34_BroadcastTotalOrder ==
    /\ [](\A c \in ClientSet, d \in ClientSet : SameOrder(c, d))
    /\ [][/\ (\E d \in ClientSet : HubBroadcast(d)) => hubTodo' = Clients
          /\ hubPc = "bcast" =>
                 /\ (hubTodo' # hubTodo \/ Clients' # Clients) =>
                        \E c \in hubTodo :
                            /\ HubOffer(c)
                            /\ hubTodo' = hubTodo \ {c}
                            /\ Clients \ {c} \subseteq Clients'
                 /\ Clients' \subseteq Clients
                 /\ hubPc' = "bcast" => hubMsg' = hubMsg]_vars

\* Two payloads were each enqueued for both clients.
C34_Witness ==
    /\ Len(enq["c1"]) = 2
    /\ Len(enq["c2"]) = 2
    /\ enq["c1"][1] # enq["c1"][2]

\* ------------------------------------------------------------- C35

\* The frames of q that one connection sent are in q in the order the
\* connection sent them.
InSendOrder(q) ==
    \A i \in 1..Len(q), j \in 1..Len(q) :
        (i < j /\ q[i].origin = q[j].origin) => q[i].seq < q[j].seq

C36_CapacityAndDrop ==
    /\ [](\A c \in ClientSet : Len(send[c]) <= SendCap)
    /\ [][\A c \in ClientSet :
             /\ (HubOffer(c) /\ c \in Clients)
                    => (c \notin Clients' <=> Len(send[c]) = SendCap)
             /\ (hubPc = "bcast" /\ c \in Clients /\ c \notin Clients')
                    => (HubOffer(c) /\ Len(send[c]) = SendCap)]_vars

\* One client was dropped with its channel full while another, whose
\* channel had room, was kept and given the payload.
C36_Witness ==
    \E c \in dropped, d \in Clients :
        /\ Len(send[c]) = SendCap
        /\ Len(enq[d]) > Len(enq[c])

\* ------------------------------------------------------------- C37

\* The threads of the pair of the frame c's readPump is handling.
Found(c) == MatchingChats(cur[c].sender_id, cur[c].receiver_id)

\* models.AddMessage must refuse: no thread for the pair, or a chat id
\* that is not zero and is the id of no thread of the pair.
MustRefuse(c) == Found(c) = {} \/ (chatID[c] # 0 /\ chatID[c] \notin Found(c))

\* models.AddMessage returned an error and saved nothing.
Refused(c) == messages' = messages /\ rpc'[c] = "errWrite"

\* models.AddMessage saved one row for the frame, under the id of a thread
\* of the pair, and returned nil.
SavedOne(c) ==
    /\ \E i \in Found(c) : messages' = Append(messages, MessageRow(i, cur[c]))
    /\ rpc'[c] = "bcast"

\* C37 as stated: models.AddMessage refuses when it must, and in every
\* other call it saves exactly one row under the id ChatExists returned.
C37_AddMessageOutcome ==
    [][\A c \in ClientSet :
          AddMessage(c) =>
              IF MustRefuse(c)
              THEN Refused(c)
              ELSE (chatID[c] = 0 \/ Found(c) = {chatID[c]}) => SavedOne(c)]_vars

\* C37, amended: models.AddMessage refuses when it must; in every other
\* call it either saves exactly one row under the id ChatExists returned
\* or returns an error with nothing saved, and it saves nothing for a reply
\* to a message that does not exist.
C37_AddMessageOutcomeOrError ==
    [][\A c \in ClientSet :
          AddMessage(c) =>
              /\ MustRefuse(c) => Refused(c)
              /\ Refused(c) \/ SavedOne(c)
              /\ (cur[c].body.replied_message_id # Nil
                    /\ cur[c].body.replied_message_id[1] \notin 0..Len(messages))
                     => Refused(c)]_vars

\* A message is in the store, and models.AddMessage has refused a frame
\* because the chat id it was given is the id of another pair's thread.
C37_Witness ==
    \E c \in ClientSet :
        /\ rpc[c] = "errWrite"
        /\ Len(messages) > 0
        /\ chatID[c] \in 1..Len(chats)
        /\ chatID[c] \notin Found(c)
        /\ Found(c) # {}

====
